---------------------------- MODULE Spec2Model ----------------------------
(***************************************************************************)
(* A model of go-hotkey (package hotkey, Windows build): the process-wide  *)
(* registry registeredHotkey, Register / Unregister, the per-hotkey        *)
(* platform state (register / unregister), the worker goroutine handle()   *)
(* with its command channel funcs and cancellation channel canceled, and   *)
(* the release-poll goroutines that handle() starts.                       *)
(*                                                                         *)
(* The Win32 calls behind package win (RegisterHotKey, UnregisterHotKey,   *)
(* PeekMessage, GetMessage, GetAsyncKeyState) are the environment: a table *)
(* of held hotkey ids, one message queue per worker thread and the         *)
(* physical state of the keys.                                             *)
(***************************************************************************)
EXTENDS Integers, Sequences, FiniteSets, TLC

(***************************************************************************)
(* Bounds of the exploration.                                              *)
(***************************************************************************)
\* Spec: Hotkey values allocated by New() over a run, and WM_HOTKEY
\* messages the OS posts over a run.
MaxHandles == 1
MaxPosts == 2
\* SpecPair, the runs with a second Hotkey: the same two limits.
MaxPairHandles == 2
MaxPairPosts == 1
\* SpecIso, the runs with two combinations and quit messages: the same two
\* limits.
MaxIsoHandles == 2
MaxIsoPosts == 1

\* Runs in which a callback calls Unregister.
MaxCbHandles == 2
MaxCbPosts == 1
\* SpecFair, the fairly scheduled runs: the same two limits.
MaxFairHandles == 1
MaxFairPosts == 2
\* SpecRace, the runs with two calling goroutines: the same two limits.
MaxRaceHandles == 1
MaxRacePosts == 1
\* SpecQuit, the runs with quit messages: the same two limits, and the
\* quit messages posted to worker threads over a run.
MaxQuitHandles == 1
MaxQuitPosts == 2
MaxQuits == 1

(***************************************************************************)
(* Vocabulary: modifiers, message codes, key codes.                        *)
(***************************************************************************)
ModAlt == 1
ModCtrl == 2
ModShift == 4
ModWin == 8

wmHotkey == 786
wmQuit == 18

keyCodeWin ==
    "space" :> 32 @@
    "0" :> 48 @@ "1" :> 49 @@ "2" :> 50 @@ "3" :> 51 @@ "4" :> 52 @@
    "5" :> 53 @@ "6" :> 54 @@ "7" :> 55 @@ "8" :> 56 @@ "9" :> 57 @@
    "a" :> 65 @@ "b" :> 66 @@ "c" :> 67 @@ "d" :> 68 @@ "e" :> 69 @@
    "f" :> 70 @@ "g" :> 71 @@ "h" :> 72 @@ "i" :> 73 @@ "j" :> 74 @@
    "k" :> 75 @@ "l" :> 76 @@ "m" :> 77 @@ "n" :> 78 @@ "o" :> 79 @@
    "p" :> 80 @@ "q" :> 81 @@ "r" :> 82 @@ "s" :> 83 @@ "t" :> 84 @@
    "u" :> 85 @@ "v" :> 86 @@ "w" :> 87 @@ "x" :> 88 @@ "y" :> 89 @@
    "z" :> 90 @@
    "return" :> 13 @@ "escape" :> 27 @@ "esc" :> 27 @@ "delete" :> 46 @@
    "tab" :> 9 @@
    "left" :> 37 @@ "right" :> 39 @@ "up" :> 38 @@ "down" :> 40 @@
    "f1" :> 112 @@ "f2" :> 113 @@ "f3" :> 114 @@ "f4" :> 115 @@
    "f5" :> 116 @@ "f6" :> 117 @@ "f7" :> 118 @@ "f8" :> 119 @@
    "f9" :> 120 @@ "f10" :> 121 @@ "f11" :> 122 @@ "f12" :> 123 @@
    "f13" :> 124 @@ "f14" :> 125 @@ "f15" :> 126 @@ "f16" :> 127 @@
    "f17" :> 128 @@ "f18" :> 129 @@ "f19" :> 130 @@ "f20" :> 131

(***************************************************************************)
(* Strings.  A hotkey string reaches the model already cut at splitStr:    *)
(* hkStr is the list strings.Split(hkStr, splitStr) returns, which is      *)
(* empty only for the empty string cut at an empty splitStr.               *)
(* SplitChars(s) is strings.Split(s, ""), the characters of s, tabulated   *)
(* for the first fields the model's calls use.                             *)
(***************************************************************************)
SplitChars(s) ==
    CASE s = "cs"    -> <<"c", "s">>
      [] s = "sc"    -> <<"s", "c">>
      [] s = "ctrl"  -> <<"c", "t", "r", "l">>
      [] s = "shift" -> <<"s", "h", "i", "f", "t">>
      [] s = "alt"   -> <<"a", "l", "t">>
      [] s = "win"   -> <<"w", "i", "n">>
      [] s = "a"     -> <<"a">>
      [] s = ""      -> <<>>

\* The four-slot array k0 with slot i set to v.
SetSlot(k0, i, v) == [k0 EXCEPT ![i] = v]

\* The loop of the short form ("csa_z"): one character of hkList[0] at a time.
RECURSIVE ShortMods(_, _)
ShortMods(chars, k0) ==
    IF chars = <<>> THEN k0
    ELSE LET v == Head(chars)
             n == CASE v = "w" -> SetSlot(k0, 1, "w")
                    [] v = "c" -> SetSlot(k0, 2, "c")
                    [] v = "s" -> SetSlot(k0, 3, "s")
                    [] v = "a" -> SetSlot(k0, 4, "a")
                    [] OTHER   -> k0
         IN  ShortMods(Tail(chars), n)

\* The loop of the long form ("ctrl_shift_z"): one field at a time; st is
\* the pair <<k0, keyName>>.
RECURSIVE LongMods(_, _)
LongMods(hkList, st) ==
    IF hkList = <<>> THEN st
    ELSE LET v == Head(hkList)
             n == CASE v = "win"   -> <<SetSlot(st[1], 1, "w"), st[2]>>
                    [] v = "ctrl"  -> <<SetSlot(st[1], 2, "c"), st[2]>>
                    [] v = "shift" -> <<SetSlot(st[1], 3, "s"), st[2]>>
                    [] v = "alt"   -> <<SetSlot(st[1], 4, "a"), st[2]>>
                    [] OTHER       -> <<st[1], v>>
         IN  LongMods(Tail(hkList), n)

\* getHkInfo: the normalized modifiers, the key name and the signal; for
\* an empty list the three results are returned as they are declared,
\* empty.  The result's modifierSort is kept as the array k0 that the code
\* joins: strings.Join(k0, "") is one-to-one on such arrays.
getHkInfo(hkList, signalStr) ==
    LET empty == <<"", "", "", "">>
        st == IF Len(hkList) = 2
              THEN <<ShortMods(SplitChars(hkList[1]), empty), hkList[2]>>
              ELSE LongMods(hkList, <<empty, "">>)
        signal == IF signalStr = "up" \/ signalStr = "press"
                  THEN signalStr ELSE "down"
    IN  IF Len(hkList) = 0
        THEN [modifierSort |-> empty, keyName |-> "", signal |-> ""]
        ELSE [modifierSort |-> st[1], keyName |-> st[2], signal |-> signal]

\* getModifier: the Modifier list of a normalized modifier string.
RECURSIVE getModifier(_)
getModifier(modifierSort) ==
    IF modifierSort = <<>> THEN <<>>
    ELSE LET v == Head(modifierSort)
             rest == getModifier(Tail(modifierSort))
         IN  CASE v = "w" -> <<ModWin>> \o rest
               [] v = "c" -> <<ModCtrl>> \o rest
               [] v = "s" -> <<ModShift>> \o rest
               [] v = "a" -> <<ModAlt>> \o rest
               [] OTHER   -> rest

\* strings.Join(k0[:], ""): the four slots of k0 written one after another.
JoinMods(k0) == k0[1] \o k0[2] \o k0[3] \o k0[4]

\* The registry key modifierSort+keyName+signal: one string, in which the
\* places where its three parts meet are not marked.
RegKey(info) == JoinMods(info.modifierSort) \o info.keyName \o info.signal

\* register's fold mod = mod | uint8(m) over hk.mods.  The modifiers of a
\* list built by getModifier are distinct bits, so the OR is their sum.
RECURSIVE ModMask(_)
ModMask(mods) == IF mods = <<>> THEN 0 ELSE Head(mods) + ModMask(Tail(mods))

(***************************************************************************)
(* The calls the application makes.                                        *)
(***************************************************************************)
\* The goroutines of the application that call Register and Unregister.
Callers == {"c1", "c2"}

\* Register's arguments: the hotkey string cut at splitStr, the signal
\* string and the number of callbacks.  Three spellings of ctrl+shift+z,
\* every signal kind, one or two callbacks, and an unknown key name.
RegisterArgs ==
    { <<<<"cs", "z">>, "", 2>>,
      <<<<"sc", "z">>, "down", 2>>,
      <<<<"ctrl", "shift", "z">>, "", 2>>,
      <<<<"cs", "z">>, "press", 2>>,
      <<<<"sc", "z">>, "press", 1>>,
      <<<<"ctrl", "shift", "z">>, "up", 2>>,
      <<<<"cs", "zz">>, "", 1>> }

\* Unregister's arguments: the hotkey string and the signal string.  "csz"
\* is a single field, a key name, whose registry key is that of "cs_z";
\* the empty list is the empty string cut at an empty splitStr.
UnregisterArgs ==
    { <<<<"cs", "z">>, "">>,
      <<<<"csz">>, "">>,
      <<<<"sc", "z">>, "press">>,
      <<<<"ctrl", "shift", "z">>, "up">>,
      <<<<>>, "up">> }

\* The calls of the runs with a second Hotkey: two spellings of one down
\* identity, a press and an up identity of the same combination.
PairRegisterArgs ==
    { <<<<"cs", "z">>, "", 2>>,
      <<<<"ctrl", "shift", "z">>, "", 2>>,
      <<<<"cs", "z">>, "press", 2>>,
      <<<<"ctrl", "shift", "z">>, "up", 2>> }

PairUnregisterArgs ==
    { <<<<"cs", "z">>, "">>,
      <<<<"sc", "z">>, "press">> }

\* The calls of the runs with quit messages: a down, a press and an up
\* hotkey.
QuitRegisterArgs ==
    { <<<<"cs", "z">>, "", 2>>,
      <<<<"cs", "z">>, "press", 2>>,
      <<<<"ctrl", "shift", "z">>, "up", 2>> }

QuitUnregisterArgs == { <<<<"cs", "z">>, "">> }

\* The calls of the runs with two combinations: a down hotkey on
\* ctrl+shift+z, a press and an up hotkey on ctrl+shift+s.
IsoRegisterArgs ==
    { <<<<"cs", "z">>, "", 1>>,
      <<<<"cs", "s">>, "press", 2>>,
      <<<<"cs", "s">>, "up", 1>> }

IsoUnregisterArgs == { <<<<"cs", "z">>, "">> }

IsoCombos ==
    { <<ModCtrl + ModShift, keyCodeWin["z"]>>,
      <<ModCtrl + ModShift, keyCodeWin["s"]>> }

\* The calls of the runs in which a callback calls Unregister: the README's
\* cs_z and esc, and a press and an up hotkey on esc.
CbRegisterArgs ==
    { <<<<"cs", "z">>, "", 1>>,
      <<<<"esc">>, "", 1>>,
      <<<<"esc">>, "press", 2>>,
      <<<<"esc">>, "up", 1>> }

\* The Unregister calls of those runs, made by the application or by a
\* callback: of cs_z (the README's esc callback) and of esc itself.
CbUnregisterArgs ==
    { <<<<"cs", "z">>, "">>,
      <<<<"esc">>, "">> }

CbCombos ==
    { <<ModCtrl + ModShift, keyCodeWin["z"]>>,
      <<0, keyCodeWin["esc"]>> }

\* The key combinations the user may press: those of the model's calls.
Combos == { <<ModCtrl + ModShift, keyCodeWin["z"]>> }

(***************************************************************************)
(* State.                                                                  *)
(***************************************************************************)
VARIABLES
    registeredHotkey,  \* the registry: registry key -> handle
    hotkeyId,          \* the package-level id counter
    hk,                \* the Hotkey values New() has made, in order
    wk,                \* per Hotkey: its handle() goroutine and sub-tasks
    osHot,             \* OS: the handles whose hotkey id is registered
    keysDown,          \* OS: the key codes physically held
    call,              \* per caller: the Register/Unregister call it is in
    obs,               \* observations: callbacks invoked, messages posted
    lim                \* the limits of the run, fixed by the initial state

vars == <<registeredHotkey, hotkeyId, hk, wk, osHot, keysDown, call, obs, lim>>

Handles == 1..Len(hk)

\* The state before the first call, in a run with the limits l: the Hotkey
\* values made, the WM_HOTKEY messages posted, the calling goroutines, the
\* calls they make and the combinations the user presses.
InitOf(l) ==
    /\ registeredHotkey = <<>>
    /\ hotkeyId = 0
    /\ hk = <<>>
    /\ wk = <<>>
    /\ osHot = {}
    /\ keysDown = {}
    /\ call = [c \in Callers |->
                 [pc |-> "idle", op |-> "", k |-> "", h |-> 0, ok |-> FALSE,
                  res |-> "", dup |-> FALSE, twice |-> FALSE, arg |-> <<>>]]
    /\ obs = <<>>
    /\ lim = l

\* One calling goroutine making any of the model's calls, in a run limited
\* to handles Hotkey values and to posts WM_HOTKEY messages.
InitWith(handles, posts) ==
    InitOf([handles |-> handles, posts |-> posts, callers |-> {"c1"},
            reg |-> RegisterArgs, unreg |-> UnregisterArgs,
            combos |-> Combos])

Init == InitWith(MaxHandles, MaxPosts)

InitPair ==
    InitOf([handles |-> MaxPairHandles, posts |-> MaxPairPosts,
            callers |-> {"c1"},
            reg |-> PairRegisterArgs, unreg |-> PairUnregisterArgs,
            combos |-> Combos])

InitQuit ==
    InitOf([handles |-> MaxQuitHandles, posts |-> MaxQuitPosts,
            callers |-> {"c1"},
            reg |-> QuitRegisterArgs, unreg |-> QuitUnregisterArgs,
            combos |-> Combos])

InitFair ==
    InitOf([handles |-> MaxFairHandles, posts |-> MaxFairPosts,
            callers |-> {"c1"},
            reg |-> QuitRegisterArgs, unreg |-> QuitUnregisterArgs,
            combos |-> Combos])

InitRace ==
    InitOf([handles |-> MaxRaceHandles, posts |-> MaxRacePosts,
            callers |-> Callers,
            reg |-> PairRegisterArgs, unreg |-> PairUnregisterArgs,
            combos |-> Combos])

InitIso ==
    InitOf([handles |-> MaxIsoHandles, posts |-> MaxIsoPosts,
            callers |-> {"c1"},
            reg |-> IsoRegisterArgs, unreg |-> IsoUnregisterArgs,
            combos |-> IsoCombos])

InitCb ==
    InitOf([handles |-> MaxCbHandles, posts |-> MaxCbPosts,
            callers |-> {"c1"},
            reg |-> CbRegisterArgs, unreg |-> CbUnregisterArgs,
            combos |-> CbCombos])

(***************************************************************************)
(* The operating system, as the code sees it through package win.          *)
(***************************************************************************)
\* The key combination RegisterHotKey is given for handle h.
Combo(h) == <<ModMask(hk[h].mods), hk[h].key>>

\* win.RegisterHotKey for handle h: refused when the combination is already
\* registered, in this process or (ext) by another one.
RegisterHotKeyOk(h, ext) ==
    /\ ~ext
    /\ \A g \in osHot : Combo(g) # Combo(h)

\* win.GetAsyncKeyState(key): 0 when the key is not held.
GetAsyncKeyState(key) == IF key \in keysDown THEN 1 ELSE 0

\* win.PeekMessage: whether a message waits in the worker thread's queue.
PeekMessage(h) == wk[h].q # <<>>

\* WM_HOTKEY messages posted so far, over all handles.
RECURSIVE SumPosted(_)
SumPosted(n) == IF n = 0 THEN 0 ELSE obs[n].posted + SumPosted(n - 1)

RECURSIVE SumQuits(_)
SumQuits(n) == IF n = 0 THEN 0 ELSE obs[n].quits + SumQuits(n - 1)

\* The handle whose registration covers the combination <<mask, key>>.
Owners(cmb) == {h \in osHot : Combo(h) = cmb}

\* The worker that reads the message queue of thread t: the last one that
\* was pinned to it.  A thread is pinned again only after the worker it
\* was pinned to has returned; the queue of the thread is kept in the q of
\* its reader.
Reader(t) ==
    CHOOSE g \in Handles :
        /\ wk[g].thr = t
        /\ \A x \in Handles : wk[x].thr = t => x <= g

\* The user presses a combination: the key goes down, and the OS posts
\* WM_HOTKEY to the thread that registered the combination.
Post(h) ==
    /\ wk' = [wk EXCEPT ![Reader(wk[h].thr)].q = Append(@, wmHotkey)]
    /\ obs' = [obs EXCEPT ![h].posted = @ + 1, ![h].rel = FALSE]

KeyPress(cmb) ==
    /\ cmb[2] \notin keysDown
    /\ keysDown' = keysDown \cup {cmb[2]}
    /\ IF Owners(cmb) # {}
       THEN /\ SumPosted(Len(hk)) < lim.posts
            /\ \E h \in Owners(cmb) : Post(h)
       ELSE UNCHANGED <<wk, obs>>
    /\ UNCHANGED <<registeredHotkey, hotkeyId, hk, osHot, call, lim>>

\* The key is still held: auto-repeat posts WM_HOTKEY again.
KeyRepeat(h) ==
    /\ h \in osHot
    /\ hk[h].key \in keysDown
    /\ SumPosted(Len(hk)) < lim.posts
    /\ Post(h)
    /\ UNCHANGED <<registeredHotkey, hotkeyId, hk, osHot, keysDown, call, lim>>

\* The user lets the key go.
KeyRelease(key) ==
    /\ key \in keysDown
    /\ keysDown' = keysDown \ {key}
    /\ obs' = [h \in DOMAIN obs |->
                 IF hk[h].key = key THEN [obs[h] EXCEPT !.rel = TRUE]
                 ELSE obs[h]]
    /\ UNCHANGED <<registeredHotkey, hotkeyId, hk, wk, osHot, call, lim>>

\* A quit message is posted to a worker thread.
PostQuit(h) ==
    /\ wk[h].pc \notin {"new", "exit"}
    /\ SumQuits(Len(hk)) < MaxQuits
    /\ wk' = [wk EXCEPT ![h].q = Append(@, wmQuit)]
    /\ obs' = [obs EXCEPT ![h].quits = @ + 1]
    /\ UNCHANGED <<registeredHotkey, hotkeyId, hk, osHot, keysDown, call, lim>>

(***************************************************************************)
(* Register and Unregister.                                                *)
(***************************************************************************)
\* An entry for k exists and its handle is registered.
Active(k) == k \in DOMAIN registeredHotkey /\ hk[registeredHotkey[k]].registered

\* The record of a call by c that has just been made: at pc "lock" it is
\* about to lock hk.mu, at pc "idle" it has already returned res.  dup and
\* twice note what the call found: a Register of an identity with an active
\* entry, an Unregister that repeats the caller's last, successful one.
CallRec(c, op, k, h, pc, res) ==
    [pc |-> pc, op |-> op, k |-> k, h |-> h, ok |-> FALSE, res |-> res,
     arg |-> <<>>,
     dup |-> op = "Register" /\ Active(k),
     twice |-> /\ op = "Unregister"
               /\ call[c].op = "Unregister"
               /\ call[c].k = k
               /\ call[c].res = "nil"]

\* New(mods, key), with Signal and Callbacks as Register sets them: no id
\* yet, not registered, hk.mu free.
NewHotkey(c, info, ncb) ==
    [mods |-> getModifier(info.modifierSort), key |-> keyCodeWin[info.keyName],
     Signal |-> info.signal, ncb |-> ncb,
     hotkeyId |-> 0, registered |-> FALSE, canceled |-> FALSE,
     mu |-> ""]

\* A counter that gives every Hotkey the same id.
FreshId_Stale(n) == 1

\* atomic.AddUint64(&hotkeyId, 1).
FreshId(n) == n + 1

\* The Hotkey's worker before register() has started it.
NoWorker ==
    [pc |-> "new", cmd |-> "", by |-> "", keyDown |-> FALSE, keyUp |-> FALSE,
     keyPress |-> FALSE, poll |-> 0, chk |-> 0, clr |-> 0, q |-> <<>>,
     thr |-> 0]

\* go hk.handle(): the worker at the top of its loop, keyDown, keyUp and
\* keyPress false, no release-poll goroutine; thr and q are set when the
\* goroutine is pinned to its thread.
NewWorker ==
    [pc |-> "loop", cmd |-> "", by |-> "", keyDown |-> FALSE, keyUp |-> FALSE,
     keyPress |-> FALSE, poll |-> 0, chk |-> 0, clr |-> 0, q |-> <<>>,
     thr |-> 0]

\* The threads a new worker may find itself on besides a fresh one: those
\* that a returned worker has unlocked (the deferred UnlockOSThread) and
\* that still hold a hotkey registration or queued messages.  An unlocked
\* thread that holds neither cannot be told from a fresh one.
UnlockedThreads ==
    {t \in 1..Len(wk) :
        /\ \E g \in Handles : wk[g].thr = t
        /\ wk[Reader(t)].pc = "exit"
        /\ \/ wk[Reader(t)].q # <<>>
           \/ \E g \in osHot : wk[g].thr = t}

\* runtime.LockOSThread() in the new worker of h: the goroutine is pinned
\* to the thread it runs on, the fresh thread h or an unlocked thread t,
\* whose message queue and hotkey registrations it finds as they are.
Pinned(h, t) ==
    IF t = h
    THEN [wk EXCEPT ![h] = [NewWorker EXCEPT !.thr = h]]
    ELSE [wk EXCEPT ![h] = [NewWorker EXCEPT !.thr = t,
                                             !.q = wk[Reader(t)].q],
                    ![Reader(t)].q = <<>>]

NewObs ==
    [cb0 |-> 0, cb1 |-> 0, posted |-> 0, quits |-> 0, rel |-> FALSE,
     started |-> 0, attempted |-> FALSE, unreg |-> FALSE]

\* A register() and unregister() whose caller does not hand the closure to
\* the worker and goes straight on to what follows <-done.
SendOnFuncs_Skipped == "done"

\* Where register() and unregister() leave their caller: blocked in
\* hk.funcs <- func() {...}, until the worker receives the closure.
SendOnFuncs == "send"

\* Register writes the registry before it calls hk.register().
RegistryAtRegister(k, h) == (k :> h) @@ registeredHotkey

\* Register, up to the call of hk.register(): the new Hotkey is stored in
\* the registry and hk.mu is not yet taken; or the whole call when the key
\* name is unknown.
RegisterFrom(c, hkStr, signalStr, ncb) ==
    LET info == getHkInfo(hkStr, signalStr)
        k == RegKey(info)
        h == Len(hk) + 1
    IN  /\ IF info.keyName \notin DOMAIN keyCodeWin
           THEN /\ call' = [call EXCEPT ![c] =
                              CallRec(c, "Register", k, 0, "idle", "key error")]
                /\ UNCHANGED <<registeredHotkey, hk, wk, obs>>
           ELSE /\ Len(hk) < lim.handles
                /\ hk' = Append(hk, NewHotkey(c, info, ncb))
                /\ registeredHotkey' = RegistryAtRegister(k, h)
                /\ wk' = Append(wk, NoWorker)
                /\ obs' = Append(obs, NewObs)
                /\ call' = [call EXCEPT ![c] =
                              CallRec(c, "Register", k, h, "lock", "")]
        /\ UNCHANGED <<hotkeyId, osHot, keysDown, lim>>

RegisterCall(c, hkStr, signalStr, ncb) ==
    /\ call[c].pc = "idle"
    /\ RegisterFrom(c, hkStr, signalStr, ncb)

\* register(), from hk.mu.Lock() to the point where it blocks sending its
\* closure on hk.funcs: a fresh id, fresh channels, the worker started and
\* pinned to a thread.
RegisterLock(c) ==
    LET h == call[c].h IN
    /\ call[c].pc = "lock"
    /\ call[c].op = "Register"
    /\ hk[h].mu = ""
    /\ IF hk[h].registered
       THEN /\ call' = [call EXCEPT ![c] =
                          [@ EXCEPT !.pc = "idle",
                                    !.res = "hotkey already registered"]]
            /\ UNCHANGED <<hk, hotkeyId, wk>>
       ELSE /\ hk' = [hk EXCEPT ![h].mu = c,
                                ![h].hotkeyId = FreshId(hotkeyId)]
            /\ hotkeyId' = FreshId(hotkeyId)
            /\ \E t \in {h} \cup UnlockedThreads : wk' = Pinned(h, t)
            /\ call' = [call EXCEPT ![c].pc = SendOnFuncs]
    /\ UNCHANGED <<registeredHotkey, osHot, keysDown, obs, lim>>

\* A register() that sets registered whatever the OS answered.
RegisteredAfter_Always(ok) == TRUE

\* register() after <-done: hk.registered, set only when the OS accepted.
RegisteredAfter(ok) == ok

\* register() after <-done.
RegisterFinish(c) ==
    LET h == call[c].h IN
    /\ call[c].pc = "done"
    /\ call[c].op = "Register"
    /\ hk' = [hk EXCEPT ![h].registered = RegisteredAfter(call[c].ok),
                        ![h].canceled = IF call[c].ok THEN @ ELSE TRUE,
                        ![h].mu = ""]
    /\ call' = [call EXCEPT ![c] =
                  [@ EXCEPT !.pc = "idle",
                            !.res = IF call[c].ok THEN "nil" ELSE "os error"]]
    /\ UNCHANGED <<registeredHotkey, hotkeyId, wk, osHot, keysDown, obs, lim>>

\* An Unregister that reports a missing entry as an error.
NoEntryResult_Error == "hotkey is not registered"

\* Unregister's result when the registry holds no entry for the key.
NoEntryResult == "nil"

\* Unregister, up to the call of hk.unregister(): the registry is read;
\* or the whole call when there is no entry.
UnregisterFrom(c, hkStr, signalStr) ==
    LET info == getHkInfo(hkStr, signalStr)
        k == RegKey(info)
    IN  /\ IF k \notin DOMAIN registeredHotkey
           THEN call' = [call EXCEPT ![c] =
                       CallRec(c, "Unregister", k, 0, "idle", NoEntryResult)]
           ELSE call' = [call EXCEPT ![c] =
                       CallRec(c, "Unregister", k, registeredHotkey[k],
                               "lock", "")]
        /\ UNCHANGED <<registeredHotkey, hotkeyId, hk, wk, osHot, keysDown,
                       obs, lim>>

UnregisterCall(c, hkStr, signalStr) ==
    /\ call[c].pc = "idle"
    /\ UnregisterFrom(c, hkStr, signalStr)

\* unregister(), from hk.mu.Lock() to the point where it blocks sending
\* its closure on hk.funcs; or to its return when the Hotkey it was given
\* is not registered.
UnregisterLock(c) ==
    LET h == call[c].h IN
    /\ call[c].pc = "lock"
    /\ call[c].op = "Unregister"
    /\ hk[h].mu = ""
    /\ IF ~hk[h].registered
       THEN /\ call' = [call EXCEPT ![c] =
                          [@ EXCEPT !.pc = "idle",
                                    !.res = "hotkey is not registered"]]
            /\ UNCHANGED hk
       ELSE /\ hk' = [hk EXCEPT ![h].mu = c]
            /\ call' = [call EXCEPT ![c].pc = SendOnFuncs]
    /\ UNCHANGED <<registeredHotkey, hotkeyId, wk, osHot, keysDown, obs, lim>>

\* An Unregister that leaves the entry in the registry.
RegistryAfterUnregister_Kept(k) == registeredHotkey

\* Unregister's delete(registeredHotkey, k).
RegistryAfterUnregister(k) ==
    [x \in DOMAIN registeredHotkey \ {k} |-> registeredHotkey[x]]

\* unregister() after <-done: it waits for canceled to be closed, clears
\* registered, unlocks hk.mu and returns nil.
UnregisterFinish(c) ==
    LET h == call[c].h IN
    /\ call[c].pc = "done"
    /\ call[c].op = "Unregister"
    /\ hk[h].canceled
    /\ hk' = [hk EXCEPT ![h].registered = FALSE, ![h].mu = ""]
    /\ call' = [call EXCEPT ![c].pc = "del"]
    /\ UNCHANGED <<registeredHotkey, hotkeyId, wk, osHot, keysDown, obs, lim>>

\* delete(registeredHotkey, k) and return nil: whatever entry the key has
\* at that moment is removed.
DeleteFrom(c) ==
    /\ registeredHotkey' = RegistryAfterUnregister(call[c].k)
    /\ obs' = [obs EXCEPT ![call[c].h].unreg = TRUE]
    /\ call' = [call EXCEPT ![c] = [@ EXCEPT !.pc = "idle", !.res = "nil"]]
    /\ UNCHANGED <<hotkeyId, hk, wk, osHot, keysDown, lim>>

\* Unregister after unregister() has returned nil.
UnregisterDelete(c) ==
    /\ call[c].pc = "del"
    /\ DeleteFrom(c)

(***************************************************************************)
(* The accesses to the map registeredHotkey, one step to begin and one to  *)
(* end each: Register's write, Unregister's read and Unregister's delete.  *)
(* A caller at pc "mapW" is inside a write or a delete, at pc "mapR"       *)
(* inside a read; call[c].arg holds the arguments of a call that has       *)
(* begun its first access.  No lock is taken around these statements:      *)
(* hk.mu is locked inside register() and unregister() only (RegisterLock,  *)
(* UnregisterLock).                                                        *)
(***************************************************************************)
\* Register begins registeredHotkey[k] = hk.
RegisterEnter(c, a) ==
    /\ call[c].pc = "idle"
    /\ getHkInfo(a[1], a[2]).keyName \in DOMAIN keyCodeWin
    /\ call' = [call EXCEPT ![c].pc = "mapW", ![c].arg = a]
    /\ UNCHANGED <<registeredHotkey, hotkeyId, hk, wk, osHot, keysDown,
                   obs, lim>>

\* Register ends the write; hk.register() is next.
RegisterLeave(c) ==
    /\ call[c].pc = "mapW"
    /\ Len(call[c].arg) = 3
    /\ RegisterFrom(c, call[c].arg[1], call[c].arg[2], call[c].arg[3])

\* Unregister begins hk, ok := registeredHotkey[k].
UnregisterEnter(c, a) ==
    /\ call[c].pc = "idle"
    /\ call' = [call EXCEPT ![c].pc = "mapR", ![c].arg = a]
    /\ UNCHANGED <<registeredHotkey, hotkeyId, hk, wk, osHot, keysDown,
                   obs, lim>>

\* Unregister ends the read; hk.unregister() is next.
UnregisterLeave(c) ==
    /\ call[c].pc = "mapR"
    /\ UnregisterFrom(c, call[c].arg[1], call[c].arg[2])

\* unregister() has returned nil and Unregister begins
\* delete(registeredHotkey, k).
DeleteEnter(c) ==
    /\ call[c].pc = "del"
    /\ call' = [call EXCEPT ![c].pc = "mapW"]
    /\ UNCHANGED <<registeredHotkey, hotkeyId, hk, wk, osHot, keysDown,
                   obs, lim>>

\* Unregister ends the delete and returns nil.
DeleteLeave(c) ==
    /\ call[c].pc = "mapW"
    /\ Len(call[c].arg) = 0
    /\ DeleteFrom(c)

\* Two callers are inside an access and one of them writes: a data race
\* on the map.
Racing ==
    \E c \in Callers, d \in Callers :
        /\ c # d
        /\ call[c].pc = "mapW"
        /\ call[d].pc \in {"mapR", "mapW"}

\* One outcome of the race: the Go runtime detects the concurrent map
\* access and throws; the process ends, and with it every worker and every
\* registration it held.  The other outcome is that the accesses end one
\* after the other (RegisterLeave, UnregisterLeave, DeleteLeave).
RegistryFatal ==
    /\ Racing
    /\ call' = [c \in Callers |-> [call[c] EXCEPT !.pc = "fatal"]]
    /\ wk' = [h \in DOMAIN wk |-> [wk[h] EXCEPT !.pc = "exit"]]
    /\ osHot' = {}
    /\ UNCHANGED <<registeredHotkey, hotkeyId, hk, keysDown, obs, lim>>

(***************************************************************************)
(* handle(): the worker loop.  One action is one pass of the loop body, or *)
(* the closure it took from hk.funcs.                                      *)
(***************************************************************************)
\* A loop that reaches its select whether or not a message waits.
SelectReached_Always(h) == TRUE

\* The loop reaches its select only in an iteration whose PeekMessage
\* found no message.
SelectReached(h) == ~PeekMessage(h)

\* No message waits and the select takes a closure from hk.funcs: the
\* caller's send completes and the caller goes on to <-done.
WorkerTake(h, c) ==
    /\ wk[h].pc = "loop"
    /\ SelectReached(h)
    /\ call[c].pc = "send"
    /\ call[c].h = h
    /\ wk' = [wk EXCEPT ![h].pc = "exec", ![h].cmd = call[c].op, ![h].by = c]
    /\ call' = [call EXCEPT ![c].pc = "wait"]
    /\ UNCHANGED <<registeredHotkey, hotkeyId, hk, osHot, keysDown, obs, lim>>

\* A select without the case <-hk.canceled.
CanceledCase_Never(h) == FALSE

\* The select's case <-hk.canceled is ready: the channel is closed.
CanceledCase(h) == hk[h].canceled

\* No message waits and the select finds hk.canceled closed: return.
WorkerCanceled(h) ==
    /\ wk[h].pc = "loop"
    /\ SelectReached(h)
    /\ CanceledCase(h)
    /\ wk' = [wk EXCEPT ![h].pc = "exit"]
    /\ UNCHANGED <<registeredHotkey, hotkeyId, hk, osHot, keysDown, call,
                   obs, lim>>

\* register's closure: win.RegisterHotKey, then done <- struct{}{}.
WorkerRegister(h, ext) ==
    LET c == wk[h].by
        ok == RegisterHotKeyOk(h, ext)
    IN  /\ wk[h].pc = "exec"
        /\ wk[h].cmd = "Register"
        /\ osHot' = IF ok THEN osHot \cup {h} ELSE osHot
        /\ call' = [call EXCEPT ![c].pc = "done", ![c].ok = ok]
        /\ wk' = [wk EXCEPT ![h].pc = "loop", ![h].cmd = "", ![h].by = ""]
        /\ obs' = [obs EXCEPT ![h].attempted = TRUE]
        /\ UNCHANGED <<registeredHotkey, hotkeyId, hk, keysDown, lim>>

\* unregister's closure, up to the hand-over on done: win.UnregisterHotKey,
\* done <- struct{}{}.  The caller goes on to <-hk.canceled; the worker is
\* still inside the closure.
WorkerUnregister(h) ==
    LET c == wk[h].by IN
    /\ wk[h].pc = "exec"
    /\ wk[h].cmd = "Unregister"
    /\ osHot' = osHot \ {h}
    /\ call' = [call EXCEPT ![c].pc = "done"]
    /\ wk' = [wk EXCEPT ![h].cmd = "close"]
    /\ UNCHANGED <<registeredHotkey, hotkeyId, hk, keysDown, obs, lim>>

\* The rest of unregister's closure: close(hk.canceled); the closure
\* returns to the loop.
WorkerClose(h) ==
    /\ wk[h].pc = "exec"
    /\ wk[h].cmd = "close"
    /\ hk' = [hk EXCEPT ![h].canceled = TRUE]
    /\ wk' = [wk EXCEPT ![h].pc = "loop", ![h].cmd = "", ![h].by = ""]
    /\ UNCHANGED <<registeredHotkey, hotkeyId, osHot, keysDown, call, obs,
                   lim>>

\* The workers after the worker of h has retrieved a quit message: its
\* handle() returns, the others go on.
AfterQuit(h) == [wk EXCEPT ![h].pc = "exit", ![h].q = Tail(@)]

\* A quit message waits: GetMessage returns false and the loop returns.
WorkerQuit(h) ==
    /\ wk[h].pc = "loop"
    /\ PeekMessage(h)
    /\ Head(wk[h].q) = wmQuit
    /\ wk' = AfterQuit(h)
    /\ UNCHANGED <<registeredHotkey, hotkeyId, hk, osHot, keysDown, call,
                   obs, lim>>

\* obs[h] after handle h invokes Callbacks[i] (i = 0, 1), when it has one;
\* with fewer callbacks the code prints instead.
Invoke(o, h, i) ==
    IF hk[h].ncb > i
    THEN [o EXCEPT !.cb0 = IF i = 0 THEN @ + 1 ELSE @,
                   !.cb1 = IF i = 1 THEN @ + 1 ELSE @]
    ELSE o

\* A detector without the guards: every interrupt is accepted.
EdgeIdle_Always(w, signal) == TRUE

\* The guards if !keyDown (down, press) and if !keyUp (up).
EdgeIdle(w, signal) ==
    IF signal = "up" THEN ~w.keyUp ELSE ~w.keyDown

\* A detector that sets keyPress for every signal kind.
PressArmed_Always(signal) == TRUE

\* keyPress after the worker has accepted an interrupt: set for press only.
PressArmed(signal) == signal = "press"

\* A detector that invokes Callbacks[0] at interrupt time for up as well.
InterruptCallback_Always(signal) == TRUE

\* Whether the worker invokes Callbacks[0] when it accepts an interrupt:
\* for down and press, not for up.
InterruptCallback(signal) == signal # "up"

\* case wmHotkey: the edge detector at interrupt time.
WorkerHotkey(h) ==
    LET w == wk[h]
        signal == hk[h].Signal
        w1 == [w EXCEPT !.q = Tail(@)]
    IN  /\ w.pc = "loop"
        /\ PeekMessage(h)
        /\ Head(w.q) = wmHotkey
        /\ IF ~EdgeIdle(w, signal)
           THEN /\ wk' = [wk EXCEPT ![h] = w1]
                /\ UNCHANGED obs
           ELSE /\ wk' = [wk EXCEPT ![h] =
                            IF signal = "up"
                            THEN [w1 EXCEPT !.keyUp = TRUE, !.poll = @ + 1]
                            ELSE [w1 EXCEPT !.keyDown = TRUE,
                                            !.keyPress =
                                                @ \/ PressArmed(signal),
                                            !.poll = @ + 1]]
                /\ obs' = [obs EXCEPT ![h] =
                             [(IF InterruptCallback(signal)
                               THEN Invoke(obs[h], h, 0)
                               ELSE obs[h])
                                EXCEPT !.started = @ + 1]]
        /\ UNCHANGED <<registeredHotkey, hotkeyId, hk, osHot, keysDown,
                       call, lim>>

(***************************************************************************)
(* The release-poll goroutines.  wk[h].poll of them are in their ticker    *)
(* loop, wk[h].chk have seen the key released, wk[h].clr have invoked      *)
(* their callback and are about to clear their flag.                       *)
(***************************************************************************)
\* A poll that does not wait for the key.
KeyReleased_Always(h) == TRUE

\* The poll's test win.GetAsyncKeyState(int(hk.key)) == 0.
KeyReleased(h) == GetAsyncKeyState(hk[h].key) = 0

\* The test if keyPress that guards Callbacks[1].
SecondaryDue(w) == w.keyPress

\* down, press: the poll sees the key released and clears keyDown.
SubDetect(h) ==
    /\ hk[h].Signal # "up"
    /\ wk[h].poll > 0
    /\ KeyReleased(h)
    /\ wk' = [wk EXCEPT ![h].poll = @ - 1, ![h].chk = @ + 1,
                        ![h].keyDown = FALSE]
    /\ UNCHANGED <<registeredHotkey, hotkeyId, hk, osHot, keysDown, call,
                   obs, lim>>

\* down, press: if keyPress, invoke Callbacks[1]; otherwise the goroutine
\* ends.
SubCheck(h) ==
    /\ wk[h].chk > 0
    /\ IF SecondaryDue(wk[h])
       THEN /\ wk' = [wk EXCEPT ![h].chk = @ - 1, ![h].clr = @ + 1]
            /\ obs' = [obs EXCEPT ![h] = Invoke(obs[h], h, 1)]
       ELSE /\ wk' = [wk EXCEPT ![h].chk = @ - 1]
            /\ UNCHANGED obs
    /\ UNCHANGED <<registeredHotkey, hotkeyId, hk, osHot, keysDown, call, lim>>

\* press: keyPress = false, and the goroutine ends.
SubClear(h) ==
    /\ hk[h].Signal # "up"
    /\ wk[h].clr > 0
    /\ wk' = [wk EXCEPT ![h].clr = @ - 1, ![h].keyPress = FALSE]
    /\ UNCHANGED <<registeredHotkey, hotkeyId, hk, osHot, keysDown, call,
                   obs, lim>>

\* up: the poll sees the key released and invokes Callbacks[0].
SubUpFire(h) ==
    /\ hk[h].Signal = "up"
    /\ wk[h].poll > 0
    /\ KeyReleased(h)
    /\ wk' = [wk EXCEPT ![h].poll = @ - 1, ![h].clr = @ + 1]
    /\ obs' = [obs EXCEPT ![h] = Invoke(obs[h], h, 0)]
    /\ UNCHANGED <<registeredHotkey, hotkeyId, hk, osHot, keysDown, call, lim>>

\* up: keyUp = false, and the goroutine ends.
SubUpClear(h) ==
    /\ hk[h].Signal = "up"
    /\ wk[h].clr > 0
    /\ wk' = [wk EXCEPT ![h].clr = @ - 1, ![h].keyUp = FALSE]
    /\ UNCHANGED <<registeredHotkey, hotkeyId, hk, osHot, keysDown, call,
                   obs, lim>>

(***************************************************************************)
(* A primary callback that calls Unregister, as the README's esc callback  *)
(* does.  Callbacks[0] of a down or press hotkey runs on the worker's      *)
(* goroutine, inside handle(): while it runs the worker is at pc "cb" and  *)
(* executes nothing else.  The call the callback makes is recorded under   *)
(* CallbackCaller; one such callback runs at a time.                       *)
(***************************************************************************)
CallbackCaller == "c2"

\* down, press: the worker takes an interrupt with the detector Idle, sets
\* keyDown and enters Callbacks[0].
WorkerCallbackEnter(h) ==
    LET w == wk[h]
        signal == hk[h].Signal
        w1 == [w EXCEPT !.q = Tail(@)]
    IN  /\ w.pc = "loop"
        /\ PeekMessage(h)
        /\ Head(w.q) = wmHotkey
        /\ EdgeIdle(w, signal)
        /\ InterruptCallback(signal)
        /\ hk[h].ncb > 0
        /\ call[CallbackCaller].pc = "idle"
        /\ \A g \in Handles : wk[g].pc # "cb"
        /\ wk' = [wk EXCEPT ![h] = [w1 EXCEPT !.keyDown = TRUE, !.pc = "cb"]]
        /\ obs' = [obs EXCEPT ![h] =
                     [Invoke(obs[h], h, 0) EXCEPT !.started = @ + 1]]
        /\ call' = [call EXCEPT ![CallbackCaller] =
                      [pc |-> "idle", op |-> "", k |-> "", h |-> 0,
                       ok |-> FALSE, res |-> "", dup |-> FALSE,
                       twice |-> FALSE, arg |-> <<>>]]
        /\ UNCHANGED <<registeredHotkey, hotkeyId, hk, osHot, keysDown, lim>>

\* The callback running on the worker of h calls Unregister and begins
\* hk, ok := registeredHotkey[k].
CallbackUnregisterEnter(h, a) ==
    /\ wk[h].pc = "cb"
    /\ call[CallbackCaller].pc = "idle"
    /\ call[CallbackCaller].op = ""
    /\ call' = [call EXCEPT ![CallbackCaller].pc = "mapR",
                            ![CallbackCaller].arg = a]
    /\ UNCHANGED <<registeredHotkey, hotkeyId, hk, wk, osHot, keysDown,
                   obs, lim>>

\* The callback running on the worker of h calls Unregister.
CallbackUnregister(h, hkStr, signalStr) ==
    /\ wk[h].pc = "cb"
    /\ call[CallbackCaller].pc = "idle"
    /\ call[CallbackCaller].op = ""
    /\ UnregisterFrom(CallbackCaller, hkStr, signalStr)

\* Unregister has returned to the callback, the callback returns to
\* handle(): keyPress = true for a press hotkey, and the release poll
\* starts.
CallbackReturn(h) ==
    /\ wk[h].pc = "cb"
    /\ call[CallbackCaller].pc = "idle"
    /\ call[CallbackCaller].op = "Unregister"
    /\ wk' = [wk EXCEPT ![h].pc = "loop",
                        ![h].keyPress = @ \/ PressArmed(hk[h].Signal),
                        ![h].poll = @ + 1]
    /\ UNCHANGED <<registeredHotkey, hotkeyId, hk, osHot, keysDown, call,
                   obs, lim>>

(***************************************************************************)
(* The specification.                                                      *)
(***************************************************************************)
Next ==
    \/ \E c \in lim.callers, a \in lim.reg :
          RegisterCall(c, a[1], a[2], a[3])
    \/ \E c \in Callers : RegisterLock(c)
    \/ \E c \in Callers : RegisterFinish(c)
    \/ \E c \in lim.callers, a \in lim.unreg :
          UnregisterCall(c, a[1], a[2])
    \/ \E c \in Callers : UnregisterLock(c)
    \/ \E c \in Callers : UnregisterFinish(c)
    \/ \E c \in Callers : UnregisterDelete(c)
    \/ \E h \in Handles, c \in Callers : WorkerTake(h, c)
    \/ \E h \in Handles : WorkerCanceled(h)
    \/ \E h \in Handles, ext \in BOOLEAN : WorkerRegister(h, ext)
    \/ \E h \in Handles : WorkerUnregister(h)
    \/ \E h \in Handles : WorkerClose(h)
    \/ \E h \in Handles : WorkerHotkey(h)
    \/ \E h \in Handles : SubDetect(h)
    \/ \E h \in Handles : SubCheck(h)
    \/ \E h \in Handles : SubClear(h)
    \/ \E h \in Handles : SubUpFire(h)
    \/ \E h \in Handles : SubUpClear(h)
    \/ \E cmb \in lim.combos : KeyPress(cmb)
    \/ \E h \in Handles : KeyRepeat(h)
    \/ \E cmb \in lim.combos : KeyRelease(cmb[2])

\* Next, and quit messages: posted to a worker thread, and retrieved.
NextQuit ==
    \/ Next
    \/ \E h \in Handles : PostQuit(h)
    \/ \E h \in Handles : WorkerQuit(h)

\* Next, and the accesses to the registry as steps with a beginning and an
\* end.
NextRace ==
    \/ Next
    \/ \E c \in lim.callers, a \in lim.reg : RegisterEnter(c, a)
    \/ \E c \in Callers : RegisterLeave(c)
    \/ \E c \in lim.callers, a \in lim.unreg : UnregisterEnter(c, a)
    \/ \E c \in Callers : UnregisterLeave(c)
    \/ \E c \in Callers : DeleteEnter(c)
    \/ \E c \in Callers : DeleteLeave(c)
    \/ RegistryFatal

\* NextRace, and primary callbacks that call Unregister: the callback's
\* goroutine is one more goroutine in the registry.
NextCb ==
    \/ NextRace
    \/ \E h \in Handles : WorkerCallbackEnter(h)
    \/ \E h \in Handles, a \in lim.unreg : CallbackUnregister(h, a[1], a[2])
    \/ \E h \in Handles, a \in lim.unreg : CallbackUnregisterEnter(h, a)
    \/ \E h \in Handles : CallbackReturn(h)

\* Runs with one Hotkey.
Spec == Init /\ [][Next]_vars

\* Runs with a second Hotkey.
SpecPair == InitPair /\ [][Next]_vars

\* Runs with quit messages.
SpecQuit == InitQuit /\ [][NextQuit]_vars

\* The worker goroutine is scheduled again and again (its loop runs on a
\* ticker): a message that waits is eventually taken, and a closed
\* hk.canceled is eventually seen by the select.
Fairness ==
    \A h \in 1..MaxFairHandles :
        /\ WF_vars(h \in Handles /\ WorkerHotkey(h))
        /\ WF_vars(h \in Handles /\ WorkerCanceled(h))

\* Fairly scheduled runs.
SpecFair == InitFair /\ [][Next]_vars /\ Fairness

\* Runs with two calling goroutines.
SpecRace == InitRace /\ [][NextRace]_vars

\* Runs with two combinations and quit messages.
SpecIso == InitIso /\ [][NextQuit]_vars

\* Runs in which a callback calls Unregister.
SpecCb == InitCb /\ [][NextCb]_vars

(***************************************************************************)
(* Properties.                                                             *)
(***************************************************************************)
\* Caller c is not inside a call and its last call was op.
Done(c, op) == call[c].pc = "idle" /\ call[c].op = op

\* The worker of h takes a WM_HOTKEY message off its queue in this step.
Dispatch(h) ==
    /\ wk[h].pc = "loop"
    /\ wk[h].q # <<>>
    /\ Head(wk[h].q) = wmHotkey
    /\ wk'[h].q = Tail(wk[h].q)

\* The edge detector of h is in DownActive (down, press) or UpWaiting (up).
Busy(h) == IF hk[h].Signal = "up" THEN wk[h].keyUp ELSE wk[h].keyDown

\* No WM_HOTKEY message of h waits and none of its release polls runs.
Quiet(h) ==
    /\ \A i \in 1..Len(wk[h].q) : wk[h].q[i] # wmHotkey
    /\ wk[h].poll = 0 /\ wk[h].chk = 0 /\ wk[h].clr = 0

\* C1: a Register of an identity whose entry is active is rejected by the
\* registry with DuplicateRegistration, and no OS-level registration is
\* attempted for it.
C1_DuplicateRejectedByRegistry ==
    \A c \in Callers :
        (call[c].op = "Register" /\ call[c].dup) =>
            /\ ~obs[call[c].h].attempted
            /\ call[c].pc = "idle" => call[c].res = "DuplicateRegistration"

\* A release poll of h invokes a callback in this step.
PollInvokes(h) ==
    /\ wk'[h].q = wk[h].q
    /\ obs'[h].cb0 # obs[h].cb0 \/ obs'[h].cb1 # obs[h].cb1

\* C2: no callback of a hotkey starts after Unregister of it has returned;
\* stated for the release polls, the case the claim singles out: once
\* Unregister has returned, no release poll invokes a callback.
C2_NoPollCallbackAfterUnregister ==
    [][\A h \in Handles : obs[h].unreg => ~PollInvokes(h)]_vars

\* C3: Register returns only after the OS-level registration attempt has
\* completed on the worker; returned nil, the OS registration is held, the
\* handle is registered and the registry maps the identity to the handle;
\* returned an OS error, the registration is not held and registered is
\* false.
C3_RegisterSynchronous ==
    \A c \in Callers :
        (Done(c, "Register") /\ call[c].h # 0) =>
            LET h == call[c].h IN
            /\ obs[h].attempted
            /\ wk[h].cmd # "Register"
            /\ call[c].res \in {"nil", "os error"}
            /\ call[c].res = "nil" =>
                  /\ h \in osHot
                  /\ hk[h].registered
                  /\ call[c].k \in DOMAIN registeredHotkey
                  /\ registeredHotkey[call[c].k] = h
            /\ call[c].res = "os error" =>
                  /\ h \notin osHot
                  /\ ~hk[h].registered

\* A Register has returned nil: the handle's registration is held.
C3_Witness ==
    \E c \in Callers :
        /\ Done(c, "Register") /\ call[c].res = "nil"
        /\ call[c].h \in osHot
        /\ obs[call[c].h].attempted

\* C4: when Register returns an OS error, the handle's worker has been torn
\* down and the registry holds no entry for the handle.
C4_FailedRegisterLeavesNothing ==
    \A c \in Callers :
        (Done(c, "Register") /\ call[c].res = "os error") =>
            /\ wk[call[c].h].pc = "exit"
            /\ \A k \in DOMAIN registeredHotkey :
                  registeredHotkey[k] # call[c].h

\* C5: an Unregister of an identity without an entry returns nil and
\* changes nothing but the caller's own record; and an Unregister that
\* repeats the caller's last, successful Unregister returns nil.
C5_UnregisterIdempotent ==
    [][\A c \in Callers :
          /\ ( /\ call[c].pc = "idle"
               /\ call'[c] # call[c]
               /\ call'[c].op = "Unregister"
               /\ call'[c].k \notin DOMAIN registeredHotkey )
             => /\ call'[c].pc = "idle"
                /\ call'[c].res = "nil"
                /\ UNCHANGED <<registeredHotkey, hotkeyId, hk, wk, osHot,
                               keysDown, obs>>
          /\ (call'[c].pc = "idle" /\ call'[c].twice)
             => call'[c].res = "nil"
      ]_vars

\* An Unregister has removed an entry and the same Unregister, made again,
\* has returned nil.
C5_Witness ==
    \E c \in Callers :
        /\ Done(c, "Unregister") /\ call[c].twice /\ call[c].res = "nil"
        /\ call[c].h = 0
        /\ \E a \in UnregisterArgs, h \in Handles :
              /\ call[c].k = RegKey(getHkInfo(a[1], a[2]))
              /\ obs[h].unreg /\ hk[h].Signal = getHkInfo(a[1], a[2]).signal

\* C6: when Unregister of an active entry returns nil, the worker has run
\* the OS-level release: the registration is not held, registered is
\* false, canceled is closed and the registry has no entry for the key.
C6_UnregisterReleases ==
    \A c \in Callers :
        (Done(c, "Unregister") /\ call[c].h # 0 /\ call[c].res = "nil") =>
            LET h == call[c].h IN
            /\ h \notin osHot
            /\ ~hk[h].registered
            /\ hk[h].canceled
            /\ wk[h].cmd # "Unregister"
            /\ call[c].k \notin DOMAIN registeredHotkey

\* An Unregister of an active entry has returned nil.
C6_Witness ==
    \E c \in Callers :
        /\ Done(c, "Unregister") /\ call[c].h # 0 /\ call[c].res = "nil"
        /\ obs[call[c].h].unreg

\* C7: a press hotkey with two callbacks that has been sent one interrupt:
\* the primary callback has run once as soon as the worker has taken the
\* message, never twice; the secondary runs at most once, only after the
\* primary and only after the key was released; and once the release poll
\* has ended both have run exactly once.
C7_PressEdges ==
    \A h \in Handles :
        (hk[h].Signal = "press" /\ hk[h].ncb = 2 /\ obs[h].posted = 1) =>
            /\ obs[h].cb0 <= 1 /\ obs[h].cb1 <= 1
            /\ obs[h].cb0 = 1 <=> (\A i \in 1..Len(wk[h].q) : wk[h].q[i] # wmHotkey)
            /\ obs[h].cb1 = 1 => (obs[h].cb0 = 1 /\ obs[h].rel)
            /\ Quiet(h) => (obs[h].cb0 = 1 /\ obs[h].cb1 = 1)

\* One interrupt and one release of a press hotkey have run their course.
C7_Witness ==
    \E h \in Handles :
        /\ hk[h].Signal = "press" /\ hk[h].ncb = 2 /\ obs[h].posted = 1
        /\ Quiet(h)
        /\ obs[h].cb0 = 1 /\ obs[h].cb1 = 1 /\ obs[h].rel

\* C8: an interrupt the worker takes while the edge detector is in
\* DownActive or UpWaiting invokes no callback and starts no release poll.
C8_Debounce ==
    [][\A h \in Handles :
          (Dispatch(h) /\ Busy(h)) =>
             /\ obs'[h].cb0 = obs[h].cb0
             /\ obs'[h].cb1 = obs[h].cb1
             /\ obs'[h].started = obs[h].started
             /\ wk'[h].poll = wk[h].poll
             /\ wk'[h].chk = wk[h].chk
             /\ wk'[h].clr = wk[h].clr
      ]_vars

\* Two interrupts were taken while the key stayed down: one poll, one
\* primary callback.
C8_Witness ==
    \E h \in Handles :
        /\ obs[h].posted = 2 /\ wk[h].q = <<>>
        /\ Busy(h) /\ wk[h].poll = 1
        /\ obs[h].started = 1
        /\ hk[h].Signal = "press" /\ obs[h].cb0 = 1

\* C9: for an up hotkey, taking an interrupt invokes no callback; the
\* primary callback is invoked only by a release poll that finds the key
\* released; every cycle the detector has started has either invoked it
\* exactly once or is still polling; at most one poll exists, and keyUp is
\* set exactly while it does.
C9_UpCycle ==
    /\ [](\A h \in Handles :
            hk[h].Signal = "up" =>
               /\ obs[h].cb0 = obs[h].started - wk[h].poll
               /\ wk[h].poll + wk[h].clr <= 1
               /\ wk[h].keyUp <=> (wk[h].poll + wk[h].clr = 1))
    /\ [][\A h \in Handles :
            hk[h].Signal = "up" =>
               /\ Dispatch(h) => obs'[h].cb0 = obs[h].cb0
               /\ obs'[h].cb0 # obs[h].cb0 =>
                     /\ hk[h].key \notin keysDown
                     /\ wk[h].poll = 1 /\ wk'[h].poll = 0
                     /\ obs'[h].cb0 = obs[h].cb0 + 1
         ]_vars

\* An up hotkey has gone through two whole cycles.
C9_Witness ==
    \E h \in Handles :
        /\ hk[h].Signal = "up" /\ hk[h].ncb = 2
        /\ obs[h].started = 2 /\ obs[h].cb0 = 2
        /\ ~wk[h].keyUp /\ Quiet(h)

\* C10: the secondary callback of a down or up hotkey is never invoked.
C10_SecondaryOnlyForPress ==
    \A h \in Handles : hk[h].Signal # "press" => obs[h].cb1 = 0

\* A down hotkey with two callbacks has gone through an interrupt and a
\* release: its primary callback has run, its release poll has ended.
C10_Witness ==
    \E h \in Handles :
        /\ hk[h].Signal = "down" /\ hk[h].ncb = 2
        /\ obs[h].started = 1 /\ obs[h].cb0 = 1
        /\ Quiet(h) /\ ~wk[h].keyDown

\* Handles g and h carry the same identity.
SameIdentity(g, h) ==
    /\ hk[g].mods = hk[h].mods
    /\ hk[g].key = hk[h].key
    /\ hk[g].Signal = hk[h].Signal

\* h was made by a Register of an identity that an earlier Register gave to
\* g and an Unregister has since taken from g.
RoundTrip(g, h) == g < h /\ SameIdentity(g, h) /\ obs[g].unreg

\* The edge detector of h is Idle and h has invoked nothing.
Untouched(h) ==
    /\ ~wk[h].keyDown /\ ~wk[h].keyUp /\ ~wk[h].keyPress
    /\ wk[h].poll = 0 /\ wk[h].chk = 0 /\ wk[h].clr = 0
    /\ obs[h].cb0 = 0 /\ obs[h].cb1 = 0

\* C11: Register(id), Unregister(id), Register(id): the first registration
\* is no longer held when the second one is attempted, so it cannot make
\* the OS refuse it, and when
\* the second Register returns nil the state is that of a fresh
\* registration (entry present and mapped to the new handle, registered
\* true, OS registration held, a worker in its loop, cancellation channel
\* open, and, until a message is posted to it, edge detector Idle); the ids
\* that register() has given to the handles are strictly increasing, so the
\* new id is greater than the old one and no two handles share an id.
C11_RoundTrip ==
    \A g \in Handles, h \in Handles :
        /\ (g < h /\ hk[h].hotkeyId # 0) => hk[g].hotkeyId < hk[h].hotkeyId
        /\ RoundTrip(g, h) =>
              /\ g \notin osHot
              /\ \A c \in Callers :
                    (Done(c, "Register") /\ call[c].h = h
                       /\ call[c].res = "nil") =>
                        /\ call[c].k \in DOMAIN registeredHotkey
                        /\ registeredHotkey[call[c].k] = h
                        /\ hk[h].registered /\ h \in osHot
                        /\ wk[h].pc = "loop" /\ ~hk[h].canceled
                        /\ hk[h].mu = ""
                        /\ obs[h].posted = 0 => Untouched(h)

\* The second Register of a round trip has returned nil.
C11_Witness ==
    \E g \in Handles, h \in Handles, c \in Callers :
        /\ RoundTrip(g, h)
        /\ Done(c, "Register") /\ call[c].h = h /\ call[c].res = "nil"
        /\ hk[g].hotkeyId = 1 /\ hk[h].hotkeyId = 2

\* C12: whenever no Register or Unregister call is in progress, the registry
\* has an entry for an identity exactly when an OS-level registration for
\* it is held, by the handle the entry maps to, whose registered is true.
C12_RegistryLifetime ==
    (\A c \in Callers : call[c].pc = "idle") =>
        /\ \A k \in DOMAIN registeredHotkey :
              /\ registeredHotkey[k] \in osHot
              /\ hk[registeredHotkey[k]].registered
        /\ \A h \in osHot :
              \E k \in DOMAIN registeredHotkey : registeredHotkey[k] = h

\* C13: an Unregister addressed to a worker that has terminated returns an
\* error; it is never blocked sending its closure on the command queue of
\* a worker that has left its loop (nothing else receives from hk.funcs, so
\* such a caller stays blocked, holding hk.mu).
C13_TerminatedWorkerFails ==
    \A c \in Callers :
        (call[c].op = "Unregister" /\ call[c].pc = "send") =>
            wk[call[c].h].pc # "exit"

\* The worker of h retrieves a quit message in this step and leaves its loop.
QuitExit(h) ==
    /\ wk[h].pc = "loop" /\ wk'[h].pc = "exit"
    /\ wk[h].q # <<>> /\ Head(wk[h].q) = wmQuit

\* Some worker other than that of g has left its loop on a quit message.
OtherQuit(g) ==
    \E h \in Handles \ {g} :
        wk[h].pc = "exit" /\ obs[h].quits > 0 /\ ~hk[h].canceled

\* C14: when the worker of one handle leaves its loop on a quit message,
\* every other handle is as it was (Hotkey fields, worker, edge detector,
\* callbacks invoked), and so are the OS registrations and the registry;
\* and afterwards an interrupt that the worker of a registered, Idle down
\* hotkey takes is an interrupt for that hotkey and invokes its callback
\* once.
C14_WorkerIsolation ==
    [][\A h \in Handles :
          /\ QuitExit(h) =>
                /\ \A g \in Handles \ {h} :
                      /\ hk'[g] = hk[g]
                      /\ wk'[g] = wk[g]
                      /\ obs'[g] = obs[g]
                /\ osHot' = osHot
                /\ registeredHotkey' = registeredHotkey
          /\ ( /\ OtherQuit(h) /\ Dispatch(h)
               /\ hk[h].registered /\ h \in osHot
               /\ hk[h].Signal = "down" /\ hk[h].ncb > 0 /\ ~Busy(h) )
              => /\ obs'[h].cb0 = obs[h].cb0 + 1
                 /\ wk'[h].pc = "loop"
                 /\ obs'[h].started <= obs[h].posted
      ]_vars

\* C15: the accesses to the registry map are mutually exclusive; stated for
\* the accesses that the Go runtime forbids to overlap: while one caller is
\* inside a write or a delete, no other caller is inside any access.
C15_RegistryExclusive == ~Racing

\* The worker of h runs the closure it took from hk.funcs in this step: the
\* OS call and the hand-over on done.
ClosureRuns(h) ==
    /\ wk[h].pc = "exec"
    /\ wk[h].cmd \in {"Register", "Unregister"}
    /\ wk'[h].cmd # wk[h].cmd

\* C16: for every handle, the OS-level registration and release happen in
\* the step in which the handle's own worker runs the closure it received,
\* and messages leave the thread's queue only in steps of that worker's
\* loop; a caller's own steps change neither, a caller's closure is taken
\* only by the worker of its handle, and a caller gets its completion
\* signal only from that worker's closure.
C16_ThreadAffinity ==
    [][ /\ \A h \in Handles :
             /\ ((h \in osHot') # (h \in osHot)) => ClosureRuns(h)
             /\ Len(wk'[h].q) < Len(wk[h].q) =>
                    (wk[h].pc = "loop" /\ call' = call)
        /\ \A c \in Callers :
             /\ (call[c].pc \in {"idle", "done"} /\ call'[c] # call[c]) =>
                    /\ osHot' = osHot
                    /\ \A h \in Handles : wk'[h] = wk[h]
             /\ (call[c].pc = "send" /\ call'[c].pc # "send") =>
                    /\ call'[c].pc = "wait"
                    /\ wk[call[c].h].pc = "loop"
                    /\ wk'[call[c].h].pc = "exec"
                    /\ wk'[call[c].h].by = c
             /\ (call[c].pc # "done" /\ call'[c].pc = "done") =>
                    /\ call[c].pc = "wait"
                    /\ wk[call[c].h].by = c
                    /\ ClosureRuns(call[c].h)
      ]_vars

\* A handle has been registered and released through its worker, which has
\* also retrieved a message in between.
C16_Witness ==
    \E h \in Handles :
        /\ obs[h].attempted /\ obs[h].unreg
        /\ obs[h].posted = 1 /\ obs[h].started = 1
        /\ wk[h].q = <<>> /\ h \notin osHot

\* C17: the worker takes a command off hk.funcs only in an iteration with
\* no message pending, and runs that one command before it takes another;
\* its loop ends only on a quit message at the head of its queue, or on
\* the cancellation signal seen in an iteration with no message pending;
\* taking a hotkey message never ends it.
C17_LoopDiscipline ==
    [][\A h \in Handles :
          /\ (wk[h].pc = "loop" /\ wk'[h].pc = "exec") => wk[h].q = <<>>
          /\ wk[h].pc = "exec" =>
                \/ wk'[h].pc = "loop"
                \/ /\ wk'[h].pc = "exec"
                   /\ wk'[h].by = wk[h].by
                   /\ \/ wk'[h].cmd = wk[h].cmd
                      \/ wk[h].cmd = "Unregister" /\ wk'[h].cmd = "close"
          /\ (wk[h].pc # "exit" /\ wk'[h].pc = "exit") =>
                /\ wk[h].pc = "loop"
                /\ \/ wk[h].q # <<>> /\ Head(wk[h].q) = wmQuit
                   \/ wk[h].q = <<>> /\ hk[h].canceled
          /\ Dispatch(h) => wk'[h].pc = "loop"
      ]_vars

\* A worker has run a command, taken a hotkey message and gone on, and
\* then left its loop on a quit message.
C17_Witness ==
    \E h \in Handles :
        /\ wk[h].pc = "exit" /\ obs[h].quits = 1 /\ ~hk[h].canceled
        /\ obs[h].attempted /\ obs[h].started = 1 /\ wk[h].q = <<>>

\* C18: once the cancellation channel of a handle is closed, by a completed
\* Unregister or by a failed registration attempt, the handle's worker
\* eventually leaves its loop.
C18_CanceledWorkerExits ==
    \A h \in 1..MaxFairHandles :
        (h \in Handles /\ hk[h].canceled) ~> (h \in Handles /\ wk[h].pc = "exit")

\* A worker has left its loop after an Unregister closed the cancellation
\* channel while a message was still to be taken.
C18_Witness ==
    \E h \in Handles :
        /\ hk[h].canceled /\ wk[h].pc = "exit"
        /\ obs[h].unreg /\ obs[h].posted = 1 /\ obs[h].started = 1

\* C19: a release poll that is active when the cancellation channel of its
\* handle is closed invokes no callback from then on.
C19_PollObservesCancel ==
    [][\A h \in Handles :
          (hk[h].canceled /\ wk[h].poll + wk[h].chk > 0) => ~PollInvokes(h)
      ]_vars

\* C20: a Register that fails for an identity that has an active
\* registration leaves the entry mapped to the original handle, and a
\* later Unregister that finds an entry for an identity whose OS
\* registration is still held returns nil.
C20_FailedRegisterFrame ==
    \A c \in Callers :
        /\ (Done(c, "Register") /\ call[c].res = "os error") =>
              \A g \in osHot :
                  SameIdentity(g, call[c].h) =>
                      registeredHotkey[call[c].k] = g
        /\ (Done(c, "Unregister") /\ call[c].h \in Handles
               /\ call[c].res # "nil") =>
              \A g \in osHot : ~SameIdentity(g, call[c].h)

\* C21: for a press hotkey with two callbacks, at quiescence (no interrupt
\* waiting, no release poll left) the primary and the secondary callback
\* have been invoked the same number of times.
C21_PressCyclesPaired ==
    \A h \in Handles :
        (hk[h].Signal = "press" /\ hk[h].ncb = 2 /\ Quiet(h)) =>
            obs[h].cb0 = obs[h].cb1

\* C22: an Unregister called from inside a callback returns: the call is
\* never blocked sending its closure on hk.funcs of the very worker that is
\* running the callback (that worker is the only receiver of hk.funcs and
\* does not receive until the callback returns).
C22_CallbackUnregisterReturns ==
    \A h \in Handles :
        ~( /\ wk[h].pc = "cb"
           /\ call[CallbackCaller].pc = "send"
           /\ call[CallbackCaller].h = h )
=============================================================================
